---- MODULE Spec2Model ----
(***************************************************************************)
(* Model of the WWM MIDI player: the Worker (QThread) of src/app.py, the   *)
(* Player (controller) that starts, stops and pauses Workers from the UI   *)
(* thread and from the global hotkey thread, and the pure helpers of the   *)
(* Worker (tempo map, end tick, duration).                                 *)
(***************************************************************************)
EXTENDS Integers, Sequences, FiniteSets, TLC

\* ------------------------------------------------------------------ bounds
MaxWorkers == 2      \* Worker objects created in one run
MaxTime == 2         \* playback clock ticks (seconds) a session is followed for
MaxMsgs == 3         \* messages, over both tracks, of an enumerated tempo input
MaxDelta == 1        \* largest per-message time delta of an enumerated tempo input
MaxTick == 3         \* largest tick of an enumerated tempo map
MaxPitch == 140      \* pitches from -MaxPitch to MaxPitch are folded
MaxChord == 3        \* notes of an enumerated chord

\* -------------------------------------------------------- program constants
DEFAULT_TEMPO == 500000
DEFAULT_VOLUME == 100
DEFAULT_VELOCITY == 64
MICRO == 1000000

\* ------------------------------------------------------------ MIDI messages
NoteOn(n, v, t) == [type |-> "note_on", note |-> n, velocity |-> v, tempo |-> 0, time |-> t]
NoteOff(n, t) == [type |-> "note_off", note |-> n, velocity |-> 0, tempo |-> 0, time |-> t]
SetTempo(u, t) == [type |-> "set_tempo", note |-> 0, velocity |-> 0, tempo |-> u, time |-> t]
ProgramChange(p, t) ==
  [type |-> "program_change", note |-> 0, velocity |-> 0, tempo |-> 0, time |-> t, program |-> p]

\* mido: a message is a MetaMessage (skipped by MidiFile.play) or a channel message
IsMeta(msg) == msg.type = "set_tempo"

\* The files a playlist can hold.  1: a type-1 file at 60 BPM with one tick per
\* beat (one tick is one second) that selects program 5 before its notes and
\* ends pitch 64 with a note-on of velocity 0; 2: a file whose key-signature
\* meta event is invalid; 3: a type-2 (asynchronous) file, which mido refuses to iterate.
Catalog ==
  << [type |-> 1, keyerr |-> FALSE, ticks_per_beat |-> 1,
      tracks |-> << << SetTempo(MICRO, 0), ProgramChange(5, 0), NoteOn(60, 50, 0),
                       NoteOn(64, 90, 0), NoteOff(60, 1), NoteOn(64, 0, 1) >> >>],
     [type |-> 1, keyerr |-> TRUE, ticks_per_beat |-> 1, tracks |-> << >>],
     [type |-> 2, keyerr |-> FALSE, ticks_per_beat |-> 1,
      tracks |-> << << NoteOn(60, 64, 0) >>, << NoteOn(62, 64, 1) >> >>] >>


\* The selections the file dialogs can return.
PlayLists == { <<1, 2, 3>>, <<3, 1>> }

\* ----------------------------------------------------------- pure helpers
RECURSIVE SumTimes(_, _)
SumTimes(track, n) == IF n = 0 THEN 0 ELSE SumTimes(track, n - 1) + track[n].time

\* abs_ticks after the n-th message of a track
AbsTicks(track, n) == SumTimes(track, n)

Max(a, b) == IF a >= b THEN a ELSE b
Min(a, b) == IF a <= b THEN a ELSE b

RECURSIVE SeqMax(_)
SeqMax(s) == IF Len(s) = 1 THEN s[1] ELSE Max(s[1], SeqMax(Tail(s)))

\* the (abs_tick, tempo) pairs appended to tempo_map, in iteration order
RECURSIVE TrackTempos(_, _)
TrackTempos(track, n) ==
  IF n = 0 THEN << >>
  ELSE LET rest == TrackTempos(track, n - 1)
       IN IF track[n].type = "set_tempo"
          THEN Append(rest, << AbsTicks(track, n), track[n].tempo >>)
          ELSE rest

RECURSIVE AllTempos(_, _)
AllTempos(tracks, k) ==
  IF k = 0 THEN << << 0, DEFAULT_TEMPO >> >>
  ELSE AllTempos(tracks, k - 1) \o TrackTempos(tracks[k], Len(tracks[k]))

\* clean_tempo_map: the dict keyed by tick, later writes replacing earlier ones
RECURSIVE CleanTempoMap(_, _)
CleanTempoMap(pairs, n) ==
  IF n = 0 THEN [t \in {} |-> 0]
  ELSE LET d == CleanTempoMap(pairs, n - 1)
           tick == pairs[n][1]
       IN [t \in DOMAIN d \cup {tick} |-> IF t = tick THEN pairs[n][2] ELSE d[t]]

\* sorted(d.items()): ascending by key
RECURSIVE SortedItems(_, _)
SortedItems(d, keys) ==
  IF keys = {} THEN << >>
  ELSE LET m == CHOOSE k \in keys : \A j \in keys : k <= j
       IN << << m, d[m] >> >> \o SortedItems(d, keys \ {m})

\* the list of pairs returned as collected, neither keyed by tick nor sorted
build_tempo_map_raw(tracks) == AllTempos(tracks, Len(tracks))

\* the dict filled in reverse order, so that the first write of a tick is kept
build_tempo_map_first(tracks) ==
  LET tempo_map == AllTempos(tracks, Len(tracks))
      rev == [i \in 1..Len(tempo_map) |-> tempo_map[Len(tempo_map) + 1 - i]]
      clean == CleanTempoMap(rev, Len(rev))
  IN SortedItems(clean, DOMAIN clean)

build_tempo_map(tracks) ==
  LET tempo_map == AllTempos(tracks, Len(tracks))
      clean == CleanTempoMap(tempo_map, Len(tempo_map))
  IN SortedItems(clean, DOMAIN clean)

HasNotes(track) == \E i \in 1..Len(track) : track[i].type \in {"note_on", "note_off"}

RECURSIVE find_max_end_tick_upto(_, _)
find_max_end_tick_upto(tracks, k) ==
  IF k = 0 THEN 0
  ELSE LET m == find_max_end_tick_upto(tracks, k - 1)
       IN IF HasNotes(tracks[k]) THEN Max(m, AbsTicks(tracks[k], Len(tracks[k]))) ELSE m

find_max_end_tick(tracks) == find_max_end_tick_upto(tracks, Len(tracks))

\* mido.tick2second, in microseconds (tick * tempo / ticks_per_beat)
tick2micro(ticks, ticks_per_beat, tempo) == (ticks * tempo) \div ticks_per_beat

\* the loop of __ticks_to_seconds over tempo_map[1:], from entry i on;
\* the result is in microseconds
RECURSIVE ticks_walk(_, _, _, _, _, _, _)
ticks_walk(tpb, max_end_tick, tempo_map, i, previous_tick, previous_tempo, total) ==
  IF i > Len(tempo_map)
  THEN IF max_end_tick > previous_tick
       THEN total + tick2micro(max_end_tick - previous_tick, tpb, previous_tempo)
       ELSE total
  ELSE LET tick == tempo_map[i][1]
           tempo == tempo_map[i][2]
           segment_end == Min(max_end_tick, tick)
           adv == segment_end > previous_tick
           total2 == IF adv
                     THEN total + tick2micro(segment_end - previous_tick, tpb, previous_tempo)
                     ELSE total
           prev2 == IF adv THEN segment_end ELSE previous_tick
       IN IF max_end_tick <= tick THEN total2
          ELSE ticks_walk(tpb, max_end_tick, tempo_map, i + 1, prev2, tempo, total2)

\* the whole span converted at the first tempo, later segments ignored
ticks_to_seconds_first_tempo(tpb, max_end_tick, tempo_map) ==
  tick2micro(max_end_tick, tpb, tempo_map[1][2])

ticks_to_seconds(tpb, max_end_tick, tempo_map) ==
  ticks_walk(tpb, max_end_tick, tempo_map, 2, tempo_map[1][1], tempo_map[1][2], 0)

\* the value __calculate_duration emits, in microseconds
calculate_duration(f) ==
  ticks_to_seconds(Catalog[f].ticks_per_beat, find_max_end_tick(Catalog[f].tracks),
                   build_tempo_map(Catalog[f].tracks))


\* ------------------------------------------------- the stream MidiFile.play walks
\* Catalog files of type 0/1 hold one track, so the merged stream is that track.
Stream(f) == IF Catalog[f].tracks = << >> THEN << >> ELSE Catalog[f].tracks[1]

\* the tempo in force before message i of the stream (mido.MidiFile.__iter__)
RECURSIVE TempoBefore(_, _)
TempoBefore(s, i) ==
  IF i <= 1 THEN DEFAULT_TEMPO
  ELSE IF s[i - 1].type = "set_tempo" THEN s[i - 1].tempo ELSE TempoBefore(s, i - 1)

\* msg.time of the i-th yielded message, in seconds (whole seconds in the Catalog)
DeltaSec(f, i) ==
  tick2micro(Stream(f)[i].time, Catalog[f].ticks_per_beat, TempoBefore(Stream(f), i)) \div MICRO

\* input_time of MidiFile.play after message i: the scheduled offset of message i
RECURSIVE CumSec(_, _)
CumSec(f, i) == IF i = 0 THEN 0 ELSE CumSec(f, i - 1) + DeltaSec(f, i)

\* ------------------------------------------------------------------- state
VARIABLES
  files,            \* Player.__files: the file ids of the playlist
  current_index,    \* Player.__current_index (0-based, -1 before any load)
  thread,           \* Player.__thread: 0 for None, else an index of workers
  mode_toggle,      \* ToggleSwitch.isChecked(): TRUE selects Audio (synth)
  current,          \* Player.__current: elapsed seconds shown
  duration,         \* Player.__duration
  progress_timer,   \* Player.__progress_timer: "unset", "active" or "stopped"
  progress_value,   \* ProgressBar.value()
  file_label,       \* the text class of Player.__file
  workers,          \* every Worker object created so far
  sigq,             \* duration_ready emissions queued for the UI thread
  ctl,              \* position of the UI thread and of the hotkey thread
  ctl_audio,        \* the local is_audio of each thread's __start_playback
  sf_ok,            \* whether the soundfont file can be loaded
  live_ticks,       \* timer ticks seen while the current Worker was not paused
  tempo_in,         \* input of the tempo helpers: the tracks
  tempo_out,        \* result of __build_tempo_map on tempo_in
  end_out,          \* result of __find_max_end_tick on tempo_in (-1 before the call)
  dur_in,           \* input of __ticks_to_seconds: ticks per beat, end tick, tempo map
  dur_out,          \* result of __ticks_to_seconds on dur_in (-1 before the call)
  pitch_in,         \* input of __transpose_into_range
  pitch_out,        \* its result, << >> before the call
  chord_in,         \* input of play_chord: the notes and the chord's velocity
  keys_out,         \* the calls play_note or play_chord made, << >> before the call
  slider,           \* Volume.value(): the position of the volume slider
  delivered         \* the last set_volume call made: the Worker and the value

vars == << files, current_index, thread, mode_toggle, current, duration, progress_timer,
           progress_value, file_label, workers, sigq, ctl, ctl_audio, sf_ok,
           live_ticks, tempo_in, tempo_out, end_out, dur_in, dur_out, pitch_in,
           pitch_out, chord_in, keys_out, slider, delivered >>

playerVars == << files, current_index, thread, mode_toggle, current, duration,
                 progress_timer, progress_value, file_label, sigq, ctl,
                 ctl_audio, live_ticks >>
tempoVars == << tempo_in, tempo_out >>
durVars == << end_out, dur_in, dur_out >>
pitchVars == << pitch_in, pitch_out >>
macroVars == << chord_in, keys_out >>
volumeVars == << slider, delivered >>
restVars == << tempoVars, durVars, pitchVars, macroVars, volumeVars >>

Threads == {"ui", "hk"}

\* QThread.isRunning(): started and run() has not returned or raised
IsRunning(w) == workers[w].pc \notin {"new", "done", "crashed"}

Terminated(w) == workers[w].pc \in {"done", "crashed"}

\* Worker.__init__
NewWorker(f, is_audio) ==
  [file |-> f, is_audio |-> is_audio, error |-> FALSE, running |-> TRUE, paused |-> FALSE,
   volume |-> DEFAULT_VOLUME, pc |-> "new", idx |-> 0, acquired |-> 0, released |-> 0,
   sf_loaded |-> FALSE, program |-> -1, log |-> << >>, elapsed |-> 0, unpaused |-> 0,
   since_stop |-> 0, after_stop |-> 0, stop_late |-> FALSE, stop_paused |-> FALSE]

Init ==
  /\ files = << >>
  /\ current_index = -1
  /\ thread = 0
  /\ mode_toggle = FALSE
  /\ current = 0
  /\ duration = 0
  /\ progress_timer = "unset"
  /\ progress_value = 0
  /\ file_label = "No files loaded"
  /\ workers = << >>
  /\ sigq = << >>
  /\ ctl = [t \in Threads |-> "idle"]
  /\ ctl_audio = [t \in Threads |-> FALSE]
  /\ sf_ok \in BOOLEAN
  /\ live_ticks = 0
  /\ tempo_in = << >>
  /\ tempo_out = << >>
  /\ end_out = -1
  /\ dur_in = << >>
  /\ dur_out = -1
  /\ pitch_in = 0
  /\ pitch_out = << >>
  /\ chord_in = << >>
  /\ keys_out = << >>
  /\ slider = DEFAULT_VOLUME
  /\ delivered = [w |-> 0, v |-> DEFAULT_VOLUME]


\* ------------------------------------------------------- Player: handlers
\* Python indexing of a list: valid from -len to len - 1
IndexOK(i) == i >= 0 - Len(files) /\ i < Len(files)
PyItem(i) == IF i >= 0 THEN files[i + 1] ELSE files[Len(files) + i + 1]

\* a handler calls __start_playback (at most MaxWorkers Workers are followed)
Enter(t) ==
  /\ Len(workers) + Cardinality({u \in Threads : ctl[u] \in {"sp_check", "sp_wait", "sp_create"}})
       < MaxWorkers
  /\ ctl' = [ctl EXCEPT ![t] = "sp_check"]

\* __browse_on_click (the dialog belongs to the UI thread)
BrowseOnClick ==
  /\ ctl["ui"] = "idle"
  /\ \E fs \in PlayLists :
       /\ files' = fs
       /\ current_index' = 0
       /\ file_label' = "Loaded files"
  /\ UNCHANGED << thread, mode_toggle, current, duration, progress_timer, progress_value,
                  workers, sigq, ctl, ctl_audio, sf_ok, live_ticks, restVars >>

\* __load_playlist: the playlist file may hold no line at all
LoadPlaylist ==
  /\ ctl["ui"] = "idle"
  /\ \E fs \in PlayLists \cup { << >> } :
       /\ files' = fs
       /\ current_index' = 0
       /\ file_label' = "Loaded playlist"
  /\ UNCHANGED << thread, mode_toggle, current, duration, progress_timer, progress_value,
                  workers, sigq, ctl, ctl_audio, sf_ok, live_ticks, restVars >>

\* ToggleSwitch.toggle: a click in the UI thread, or F8 in the hotkey thread
ToggleMode(t) ==
  /\ ctl[t] = "idle"
  /\ mode_toggle' = ~mode_toggle
  /\ UNCHANGED << files, current_index, thread, current, duration, progress_timer,
                  progress_value, file_label, workers, sigq, ctl, ctl_audio,
                  sf_ok, live_ticks, restVars >>

\* __previous_on_click
PreviousOnClick(t) ==
  /\ ctl[t] = "idle"
  /\ files # << >> /\ current_index > 0
  /\ current_index' = current_index - 1
  /\ Enter(t)
  /\ UNCHANGED << files, thread, mode_toggle, current, duration, progress_timer,
                  progress_value, file_label, workers, sigq, ctl_audio, sf_ok,
                  live_ticks, restVars >>

\* __next_on_click without the upper bound of line 346
NextOnClick_NoGuard(t) ==
  /\ ctl[t] = "idle"
  /\ files # << >>
  /\ current_index' = current_index + 1
  /\ Enter(t)
  /\ UNCHANGED << files, thread, mode_toggle, current, duration, progress_timer,
                  progress_value, file_label, workers, sigq, ctl_audio, sf_ok,
                  live_ticks, restVars >>

\* __next_on_click
NextOnClick(t) ==
  /\ ctl[t] = "idle"
  /\ files # << >> /\ current_index < Len(files) - 1
  /\ current_index' = current_index + 1
  /\ Enter(t)
  /\ UNCHANGED << files, thread, mode_toggle, current, duration, progress_timer,
                  progress_value, file_label, workers, sigq, ctl_audio, sf_ok,
                  live_ticks, restVars >>

\* __playlist_on_double_click on row r
PlaylistOnDoubleClick ==
  /\ ctl["ui"] = "idle"
  /\ \E r \in 0..(Len(files) - 1) : current_index' = r
  /\ Enter("ui")
  /\ UNCHANGED << files, thread, mode_toggle, current, duration, progress_timer,
                  progress_value, file_label, workers, sigq, ctl_audio, sf_ok,
                  live_ticks, restVars >>

\* Worker.toggle_pause
toggle_pause(w) == [workers EXCEPT ![w].paused = ~workers[w].paused]

\* Worker.stop; observed with it: whether run() had already passed the check of
\* line 170 for its current message, and whether the Worker was paused
stop(w) ==
  [workers EXCEPT ![w].running = FALSE,
                  ![w].stop_late = workers[w].pc = "render",
                  ![w].stop_paused = workers[w].paused]

\* a set_volume that stores nothing
set_volume_ignored(w, v) == workers

\* Worker.set_volume
set_volume(w, v) == [workers EXCEPT ![w].volume = v]

\* the positions the volume slider is moved between
Volumes == {40, DEFAULT_VOLUME}

\* __set_volume, on valueChanged of the slider: the value reaches the Worker
\* only if one is running
SetVolume ==
  /\ ctl["ui"] = "idle"
  /\ \E v \in Volumes \ {slider} :
       /\ slider' = v
       /\ IF thread # 0 /\ IsRunning(thread)
          THEN /\ workers' = set_volume(thread, v)
               /\ delivered' = [w |-> thread, v |-> v]
          ELSE UNCHANGED << workers, delivered >>
  /\ UNCHANGED << playerVars, sf_ok, tempoVars, durVars, pitchVars, macroVars >>

\* __play_on_click
PlayOnClick(t) ==
  /\ ctl[t] = "idle"
  /\ IF current_index = -1 \/ files = << >>
     THEN /\ file_label' = "Please load MIDI files first!"
             /\ UNCHANGED << workers, ctl >>
     ELSE IF thread # 0 /\ IsRunning(thread)
          THEN /\ workers' = toggle_pause(thread)
               /\ UNCHANGED << file_label, ctl >>
          ELSE /\ Enter(t)
               /\ UNCHANGED << file_label, workers >>
  /\ UNCHANGED << files, current_index, thread, mode_toggle, current, duration,
                  progress_timer, progress_value, sigq, ctl_audio, sf_ok, live_ticks,
                  restVars >>

\* ------------------------------------------------ Player.__start_playback
\* lines 269-270: request cancellation of a running Worker
SP_StopOld(t) ==
  /\ ctl[t] = "sp_check"
  /\ IF thread # 0 /\ IsRunning(thread)
     THEN /\ workers' = stop(thread)
          /\ ctl' = [ctl EXCEPT ![t] = "sp_wait"]
     ELSE /\ ctl' = [ctl EXCEPT ![t] = "sp_create"]
          /\ UNCHANGED workers
  /\ UNCHANGED << files, current_index, thread, mode_toggle, current, duration,
                  progress_timer, progress_value, file_label, sigq, ctl_audio,
                  sf_ok, live_ticks, restVars >>

\* line 271: QThread.wait returns once the thread is not running
SP_Wait(t) ==
  /\ ctl[t] = "sp_wait"
  /\ ~IsRunning(thread)
  /\ ctl' = [ctl EXCEPT ![t] = "sp_create"]
  /\ UNCHANGED << files, current_index, thread, mode_toggle, current, duration,
                  progress_timer, progress_value, file_label, workers, sigq,
                  ctl_audio, sf_ok, live_ticks, restVars >>

\* Once Player.__thread is rebound, a Worker that has ended is referenced by
\* nothing: what remains of it is how it ended and the synth it created or deleted.
Retired ==
  [w \in 1..Len(workers) |->
     IF Terminated(w)
     THEN [NewWorker(workers[w].file, FALSE) EXCEPT
             !.pc = workers[w].pc, !.error = workers[w].error,
             !.acquired = workers[w].acquired, !.released = workers[w].released]
     ELSE workers[w]]

\* lines 272-277: a new Worker for files[current_index]; an index out of range
\* raises IndexError and ends the handler
SP_Create(t) ==
  /\ ctl[t] = "sp_create"
  /\ IF IndexOK(current_index)
     THEN /\ workers' = Append(Retired, NewWorker(PyItem(current_index), mode_toggle))
          /\ thread' = Len(workers) + 1
          /\ ctl_audio' = [ctl_audio EXCEPT ![t] = mode_toggle]
          /\ ctl' = [ctl EXCEPT ![t] = IF mode_toggle THEN "sp_start" ELSE "sp_sleep"]
     ELSE /\ ctl' = [ctl EXCEPT ![t] = "idle"]
          /\ UNCHANGED << workers, thread, ctl_audio >>
  /\ UNCHANGED << files, current_index, mode_toggle, current, duration, progress_timer,
                  progress_value, file_label, sigq, sf_ok, live_ticks,
                  restVars >>

\* lines 278-279: time.sleep(1) in macro mode
SP_Sleep(t) ==
  /\ ctl[t] = "sp_sleep"
  /\ ctl' = [ctl EXCEPT ![t] = "sp_start"]
  /\ UNCHANGED << files, current_index, thread, mode_toggle, current, duration,
                  progress_timer, progress_value, file_label, workers, sigq,
                  ctl_audio, sf_ok, live_ticks, restVars >>

\* QThread.start: nothing if the thread is running, else run() begins (again)
start(w) ==
  IF IsRunning(w) THEN workers
  ELSE [workers EXCEPT ![w].pc = "decode", ![w].idx = 0, ![w].since_stop = 0]

\* line 280: self.__thread.start()
SP_Start(t) ==
  /\ ctl[t] = "sp_start"
  /\ workers' = start(thread)
  /\ ctl' = [ctl EXCEPT ![t] = "sp_show"]
  /\ UNCHANGED << files, current_index, thread, mode_toggle, current, duration,
                  progress_timer, progress_value, file_label, sigq, ctl_audio,
                  sf_ok, live_ticks, restVars >>

\* what lines 281-284 show for Worker w
ShownLabel(w) == IF workers[w].error THEN "Invalid file" ELSE "file name"

\* lines 281-284: read the Worker's error flag and set the label
SP_Show(t) ==
  /\ ctl[t] = "sp_show"
  /\ file_label' = ShownLabel(thread)
  /\ ctl' = [ctl EXCEPT ![t] = "idle"]
  /\ UNCHANGED << files, current_index, thread, mode_toggle, current, duration,
                  progress_timer, progress_value, workers, sigq, ctl_audio, sf_ok,
                  live_ticks, restVars >>

\* ------------------------------------------------- Player: progress display
\* int(duration) of a duration_ready payload (microseconds here)
IntSeconds(micro) == micro \div MICRO

\* __duration_ready, run by the UI thread's event loop
DurationReady ==
  /\ ctl["ui"] = "idle"
  /\ sigq # << >>
  /\ current' = 0
  /\ duration' = IntSeconds(Head(sigq))
  /\ progress_value' = IF progress_value > IntSeconds(Head(sigq)) THEN -1 ELSE progress_value
  /\ progress_timer' = "active"
  /\ live_ticks' = 0
  /\ sigq' = Tail(sigq)
  /\ UNCHANGED << files, current_index, thread, mode_toggle, file_label,
                  workers, ctl, ctl_audio, sf_ok, restVars >>

\* __update_progress without its check of the pause state
ProgressFrozen_Never == FALSE

\* line 257: the early return of __update_progress
ProgressFrozen == thread # 0 /\ workers[thread].paused

\* __update_progress without its test of the end
ProgressDone_Never == FALSE

\* line 262: the counter has reached the duration
ProgressDone == current >= duration

\* __update_progress, on a timeout of the progress timer
UpdateProgress ==
  /\ ctl["ui"] = "idle"
  /\ progress_timer = "active"
  /\ live_ticks' = IF thread # 0 /\ workers[thread].paused
                   THEN live_ticks ELSE Min(live_ticks + 1, duration + 1)
  /\ IF ProgressFrozen
     THEN UNCHANGED << current, progress_value, progress_timer >>
     ELSE /\ progress_value' = current
          /\ IF ProgressDone
             THEN /\ progress_timer' = "stopped"
                  /\ UNCHANGED current
             ELSE /\ current' = current + 1
                  /\ UNCHANGED progress_timer
  /\ UNCHANGED << files, current_index, thread, mode_toggle, duration, file_label,
                  workers, sigq, ctl, ctl_audio, sf_ok, restVars >>


\* ------------------------------------------------------ note-to-key mapping
MIN_NOTE == 48
MAX_NOTE == 83
OCTAVE == 12
SEMITONE_OFFSET == 0

Degrees == << "1", "#1", "2", "b3", "3", "4", "#4", "5", "#5", "6", "b7", "7" >>
DEGREE_OFFSETS ==
  [d \in {"1", "#1", "2", "b3", "3", "4", "#4", "5", "#5", "6", "b7", "7"} |->
     CASE d = "1" -> 0 [] d = "#1" -> 1 [] d = "2" -> 2 [] d = "b3" -> 3 [] d = "3" -> 4
       [] d = "4" -> 5 [] d = "#4" -> 6 [] d = "5" -> 7 [] d = "#5" -> 8 [] d = "6" -> 9
       [] d = "b7" -> 10 [] d = "7" -> 11]

Registers == << "low", "med", "high" >>
BASE_NOTES == [r \in {"low", "med", "high"} |->
                 CASE r = "low" -> 48 [] r = "med" -> 60 [] r = "high" -> 72]

\* REGISTER_KEYS, each register's keys in the order of Degrees
REGISTER_KEYS ==
  [r \in {"low", "med", "high"} |->
     CASE r = "low" -> << "Z", "Shift+Z", "X", "Ctrl+C", "C", "V", "Shift+V", "B",
                          "Shift+B", "N", "Ctrl+M", "M" >>
       [] r = "med" -> << "A", "Shift+A", "S", "Ctrl+D", "D", "F", "Shift+F", "G",
                          "Shift+G", "H", "Ctrl+J", "J" >>
       [] r = "high" -> << "Q", "Shift+Q", "W", "Ctrl+E", "E", "R", "Shift+R", "T",
                           "Shift+T", "Y", "Ctrl+U", "U" >>]

\* __build_map after the first k (register, degree) pairs, in iteration order
RECURSIVE build_map_upto(_)
build_map_upto(k) ==
  IF k = 0 THEN [n \in {} |-> ""]
  ELSE LET m == build_map_upto(k - 1)
           r == Registers[((k - 1) \div Len(Degrees)) + 1]
           i == ((k - 1) % Len(Degrees)) + 1
           note == BASE_NOTES[r] + SEMITONE_OFFSET + DEGREE_OFFSETS[Degrees[i]]
       IN IF MIN_NOTE <= note /\ note <= MAX_NOTE
          THEN [n \in DOMAIN m \cup {note} |-> IF n = note THEN REGISTER_KEYS[r][i] ELSE m[n]]
          ELSE m

\* the table built from the first two registers only
NOTE_TO_WWM_KEY_two_registers == build_map_upto(2 * Len(Degrees))

NOTE_TO_WWM_KEY == build_map_upto(Len(Registers) * Len(Degrees))

\* str.lower on the key combinations of REGISTER_KEYS
LowerLetter(c) ==
  CASE c = "Z" -> "z" [] c = "X" -> "x" [] c = "C" -> "c" [] c = "V" -> "v" [] c = "B" -> "b"
    [] c = "N" -> "n" [] c = "M" -> "m" [] c = "A" -> "a" [] c = "S" -> "s" [] c = "D" -> "d"
    [] c = "F" -> "f" [] c = "G" -> "g" [] c = "H" -> "h" [] c = "J" -> "j" [] c = "Q" -> "q"
    [] c = "W" -> "w" [] c = "E" -> "e" [] c = "R" -> "r" [] c = "T" -> "t" [] c = "Y" -> "y"
    [] c = "U" -> "u"
Lower(key) ==
  LET r == CHOOSE x \in {"low", "med", "high"} : \E i \in 1..12 : REGISTER_KEYS[x][i] = key
      i == CHOOSE j \in 1..12 : REGISTER_KEYS[r][j] = key
      plain == REGISTER_KEYS[r][IF i \in {2, 7, 9} THEN i - 1 ELSE IF i \in {4, 11} THEN i + 1 ELSE i]
  IN IF i \in {2, 7, 9} THEN << "shift", LowerLetter(plain) >>
     ELSE IF i \in {4, 11} THEN << "ctrl", LowerLetter(plain) >>
     ELSE << LowerLetter(plain) >>

\* the first loop of __transpose_into_range: up by octaves while below Note.MIN
RECURSIVE raise_into_range(_)
raise_into_range(note) ==
  IF note < MIN_NOTE THEN raise_into_range(note + OCTAVE) ELSE note

\* its second loop: down by octaves while above Note.MAX
RECURSIVE lower_into_range(_)
lower_into_range(note) ==
  IF note > MAX_NOTE THEN lower_into_range(note - OCTAVE) ELSE note

\* the fold without its second loop
transpose_into_range_up_only(note) == raise_into_range(note)

\* __transpose_into_range: the first loop, then the second
transpose_into_range(note) == lower_into_range(raise_into_range(note))

\* ------------------------------------------------------------ sink calls
\* one call made on the output sink; ev is the stream index being processed and
\* up the un-paused playback time (seconds) at which the call is made
Call(op, note, val, key, ev, up) ==
  [op |-> op, note |-> note, val |-> val, key |-> key, ev |-> ev, up |-> up]

\* play_note looking the pitch up as it is given, without folding it
play_note_unfolded(n, ev, up) ==
  IF n \in DOMAIN NOTE_TO_WWM_KEY
  THEN << Call("send", n, 0, Lower(NOTE_TO_WWM_KEY[n]), ev, up) >>
  ELSE << >>

\* play_note: keyboard.send of the mapped key, nothing when there is no entry
play_note(n, ev, up) ==
  LET t == transpose_into_range(n)
  IN IF t \in DOMAIN NOTE_TO_WWM_KEY
     THEN << Call("send", t, 0, Lower(NOTE_TO_WWM_KEY[t]), ev, up) >>
     ELSE << >>

RECURSIVE play_chord(_, _, _)
play_chord(notes, ev, up) ==
  IF notes = << >> THEN << >>
  ELSE play_note(Head(notes), ev, up) \o play_chord(Tail(notes), ev, up)

\* every note message taken for a sounding note
IsSounding_AnyNote(msg) == msg.type \in {"note_on", "note_off"}

\* the test of line 125 without its velocity part
IsSounding_AnyVelocity(msg) == msg.type = "note_on"

\* line 125: a note-on with a positive velocity
IsSounding(msg) == msg.type = "note_on" /\ 0 < msg.velocity

\* the synth.noteoff calls __add_note makes while tick_events is walked
RECURSIVE NoteOffCalls(_, _, _, _)
NoteOffCalls(is_audio, evs, ev, up) ==
  IF evs = << >> THEN << >>
  ELSE (IF ~IsSounding(Head(evs)) /\ Head(evs).type = "note_off" /\ is_audio
        THEN << Call("noteoff", Head(evs).note, 0, << >>, ev, up) >> ELSE << >>)
       \o NoteOffCalls(is_audio, Tail(evs), ev, up)

\* the velocity of the chord handed to the synth
chord_velocity(velocities) == IF velocities # << >> THEN SeqMax(velocities) ELSE DEFAULT_VELOCITY

\* __flush_tick_events: the sink calls made for tick_events
flush_tick_events(wr, tick_events, ev, up) ==
  LET sounding == SelectSeq(tick_events, IsSounding)
      chord_notes == [i \in 1..Len(sounding) |-> sounding[i].note]
      velocities == [i \in 1..Len(sounding) |-> sounding[i].velocity]
  IN IF tick_events = << >> THEN << >>
     ELSE NoteOffCalls(wr.is_audio, tick_events, ev, up)
          \o (IF chord_notes = << >> THEN << >>
              ELSE IF wr.is_audio
                   THEN [i \in 1..Len(chord_notes) |->
                           Call("noteon", chord_notes[i], chord_velocity(velocities), << >>, ev, up)]
                        \o << Call("cc", 7, wr.volume, << >>, ev, up) >>
                   ELSE play_chord(chord_notes, ev, up))

\* ------------------------------------------------------------- Worker.run
\* one more step taken by run() after stop() was called
Step(wr) == IF wr.running THEN wr ELSE [wr EXCEPT !.since_stop = @ + 1]

\* the handler of the decode error without its "return": run() goes on
Decoded_NoReturn(wr) == [wr EXCEPT !.error = Catalog[wr.file].keyerr, !.pc = "acquire"]

\* lines 154-159: decode the file; a KeySignatureError sets the error flag
Decoded(wr) ==
  IF Catalog[wr.file].keyerr
  THEN [wr EXCEPT !.error = TRUE, !.pc = "done"]
  ELSE [wr EXCEPT !.error = FALSE, !.pc = "acquire"]

W_Decode(w) ==
  /\ workers[w].pc = "decode"
  /\ workers' = [workers EXCEPT ![w] = Step(Decoded(workers[w]))]
  /\ UNCHANGED << playerVars, sf_ok, restVars >>

\* lines 160-165: create the synth; in audio mode start it, load the soundfont
\* (sfload reports a failure by its return value, which is unused) and select
\* program 0 of it on channel 0
Acquired(wr) ==
  [wr EXCEPT !.acquired = @ + 1, !.sf_loaded = wr.is_audio /\ sf_ok,
             !.program = IF wr.is_audio /\ sf_ok THEN 0 ELSE @, !.pc = "duration"]

W_Acquire(w) ==
  /\ workers[w].pc = "acquire"
  /\ workers' = [workers EXCEPT ![w] = Step(Acquired(workers[w]))]
  /\ UNCHANGED << playerVars, sf_ok, restVars >>

\* a signal emitted twice
emit_twice(q, x) == Append(Append(q, x), x)

\* Signal.emit across threads: the call is queued for the receiver's thread
emit(q, x) == Append(q, x)

\* line 166: __calculate_duration emits duration_ready; play() is then entered
W_Duration(w) ==
  /\ workers[w].pc = "duration"
  /\ sigq' = emit(sigq, calculate_duration(workers[w].file))
  /\ workers' = [workers EXCEPT ![w] =
                   Step([workers[w] EXCEPT !.pc = "next", !.idx = 1, !.elapsed = 0,
                                           !.unpaused = 0])]
  /\ UNCHANGED << files, current_index, thread, mode_toggle, current, duration,
                  progress_timer, progress_value, file_label, ctl, ctl_audio,
                  sf_ok, live_ticks, restVars >>

\* line 167: one step of MidiFile.play: a type-2 file raises TypeError; else
\* sleep until the next message is due, skip it if it is a meta message
Fetched(wr) ==
  IF Catalog[wr.file].type = 2
  THEN [wr EXCEPT !.pc = "crashed", !.elapsed = 0, !.unpaused = 0]
  ELSE IF wr.idx > Len(Stream(wr.file)) THEN [wr EXCEPT !.pc = "final"]
  ELSE IF IsMeta(Stream(wr.file)[wr.idx]) THEN [wr EXCEPT !.idx = @ + 1]
  ELSE [wr EXCEPT !.pc = "pause"]

\* play() returns from its sleep once playback time reaches the message's offset
Due(wr) ==
  IF Catalog[wr.file].type = 2 \/ wr.idx > Len(Stream(wr.file)) THEN TRUE
  ELSE wr.elapsed >= CumSec(wr.file, wr.idx)

W_Next(w) ==
  /\ workers[w].pc = "next"
  /\ Due(workers[w])
  /\ workers' = [workers EXCEPT ![w] = Step(Fetched(workers[w]))]
  /\ UNCHANGED << playerVars, sf_ok, restVars >>

\* lines 168-169 without the check of line 170
PauseChecked_NoBreak(wr) ==
  IF wr.paused /\ wr.running THEN wr ELSE [wr EXCEPT !.pc = "render"]

\* lines 168-171: sleep while paused and running; leave the loop when stopped
PauseChecked(wr) ==
  IF wr.paused /\ wr.running THEN wr
  ELSE IF ~wr.running THEN [wr EXCEPT !.pc = "final"]
  ELSE [wr EXCEPT !.pc = "render"]

W_PauseCheck(w) ==
  /\ workers[w].pc = "pause"
  /\ workers' = [workers EXCEPT ![w] = Step(PauseChecked(workers[w]))]
  /\ UNCHANGED << playerVars, sf_ok, restVars >>

\* lines 178-182 with the volume controller sent in either mode
Rendered_AlwaysGain(wr) ==
  LET msg == Stream(wr.file)[wr.idx]
      tick_events == IF msg.type \in {"note_on", "note_off"} THEN << msg >> ELSE << >>
  IN [wr EXCEPT !.log = @ \o flush_tick_events(wr, tick_events, wr.idx, wr.unpaused)
                        \o << Call("cc", 7, wr.volume, << >>, wr.idx, wr.unpaused) >>,
                !.idx = @ + 1, !.pc = "next"]

\* lines 178-182: the message joins tick_events if it is a note message, the
\* list is flushed, and in audio mode the volume controller is sent
Rendered(wr) ==
  LET msg == Stream(wr.file)[wr.idx]
      tick_events == IF msg.type \in {"note_on", "note_off"} THEN << msg >> ELSE << >>
  IN [wr EXCEPT !.log = @ \o flush_tick_events(wr, tick_events, wr.idx, wr.unpaused)
                        \o (IF wr.is_audio
                            THEN << Call("cc", 7, wr.volume, << >>, wr.idx, wr.unpaused) >>
                            ELSE << >>),
                !.after_stop = IF wr.running THEN @ ELSE @ + 1,
                !.idx = @ + 1, !.pc = "next"]

\* lines 172-177 wait for start_time + msg.time, then lines 178-182
W_Render(w) ==
  /\ workers[w].pc = "render"
  /\ workers[w].elapsed >= DeltaSec(workers[w].file, workers[w].idx)
  /\ workers' = [workers EXCEPT ![w] = Step(Rendered(workers[w]))]
  /\ UNCHANGED << playerVars, sf_ok, restVars >>

\* the end of run() if it also cleared the running flag
Finished_ClearsRunning(wr) ==
  [wr EXCEPT !.released = @ + 1, !.pc = "done", !.running = FALSE, !.elapsed = 0,
             !.unpaused = 0]

\* lines 183-184: the last flush (tick_events is empty) and synth.delete()
Finished(wr) ==
  [wr EXCEPT !.log = @ \o flush_tick_events(wr, << >>, wr.idx, wr.unpaused),
             !.released = @ + 1, !.pc = "done", !.elapsed = 0, !.unpaused = 0]

W_Final(w) ==
  /\ workers[w].pc = "final"
  /\ workers' = [workers EXCEPT ![w] = Step(Finished(workers[w]))]
  /\ UNCHANGED << playerVars, sf_ok, restVars >>

\* ------------------------------------------------------------------ clock
InLoop(w) == workers[w].pc \in {"next", "pause", "render"}

\* one second passes: the playback clock of every session in its loop advances
Tick ==
  /\ \E w \in 1..Len(workers) : InLoop(w) /\ workers[w].elapsed < MaxTime
  /\ workers' = [w \in 1..Len(workers) |->
                   IF InLoop(w)
                   THEN [workers[w] EXCEPT !.elapsed = Min(@ + 1, MaxTime)]
                   ELSE workers[w]]
  /\ UNCHANGED << playerVars, sf_ok, restVars >>

\* the same second, with the un-paused playback time of each session observed:
\* it advances unless the Worker is paused
TickObserved ==
  /\ \E w \in 1..Len(workers) : InLoop(w) /\ workers[w].elapsed < MaxTime
  /\ workers' = [w \in 1..Len(workers) |->
                   IF InLoop(w)
                   THEN [workers[w] EXCEPT
                           !.elapsed = Min(@ + 1, MaxTime),
                           !.unpaused = IF workers[w].paused THEN @ ELSE Min(@ + 1, MaxTime)]
                   ELSE workers[w]]
  /\ UNCHANGED << playerVars, sf_ok, restVars >>

\* ------------------------------------------------------------ specification
\* the Worker threads
WorkerStep ==
  \E w \in 1..Len(workers) :
    \/ W_Decode(w)
    \/ W_Acquire(w)
    \/ W_Duration(w)
    \/ W_Next(w)
    \/ W_PauseCheck(w)
    \/ W_Render(w)
    \/ W_Final(w)

\* a handler, or a step of __start_playback, run by thread t
ControlStep(t) ==
  \/ PreviousOnClick(t)
  \/ NextOnClick(t)
  \/ PlayOnClick(t)
  \/ SP_StopOld(t)
  \/ SP_Wait(t)
  \/ SP_Create(t)
  \/ SP_Sleep(t)
  \/ SP_Start(t)
  \/ SP_Show(t)

\* Sessions driven from the UI thread alone: its handlers, __start_playback,
\* the Workers and the clock
Next ==
  \/ BrowseOnClick
  \/ LoadPlaylist
  \/ PlaylistOnDoubleClick
  \/ ToggleMode("ui")
  \/ ControlStep("ui")
  \/ WorkerStep
  \/ Tick

Spec == Init /\ [][Next]_vars

\* Two controlling threads: the UI thread's buttons and the hotkey thread's
\* F8-F11 callbacks, over one loaded selection
NextHotkey ==
  \/ BrowseOnClick
  \/ ControlStep("ui")
  \/ ToggleMode("hk")
  \/ ControlStep("hk")
  \/ WorkerStep
  \/ Tick

SpecHotkey == Init /\ [][NextHotkey]_vars


\* Sessions from the UI thread with the un-paused playback time observed
NextTime ==
  \/ BrowseOnClick
  \/ ToggleMode("ui")
  \/ ControlStep("ui")
  \/ WorkerStep
  \/ TickObserved

SpecTime == Init /\ [][NextTime]_vars

\* Sessions from the UI thread with its event loop's progress display
NextProgress ==
  \/ Next
  \/ DurationReady
  \/ UpdateProgress

SpecProgress == Init /\ [][NextProgress]_vars

\* Sessions from the UI thread with its volume slider
NextVolume ==
  \/ BrowseOnClick
  \/ ToggleMode("ui")
  \/ ControlStep("ui")
  \/ SetVolume
  \/ WorkerStep
  \/ Tick

SpecVolume == Init /\ [][NextVolume]_vars

\* ------------------------------------------------ the tempo helpers alone
\* the messages of an enumerated track: tempo changes and a note
TempoMsgs ==
  {SetTempo(u, d) : u \in {400000, DEFAULT_TEMPO}, d \in 0..MaxDelta}
    \cup {NoteOn(60, 64, d) : d \in 0..MaxDelta}

\* two tracks (either may be empty) holding at most MaxMsgs messages together
TrackPairs ==
  UNION {{<< a, b >> : a \in [1..n[1] -> TempoMsgs], b \in [1..n[2] -> TempoMsgs]} :
           n \in {m \in (0..MaxMsgs) \X (0..MaxMsgs) : m[1] + m[2] <= MaxMsgs}}

InitTempo ==
  /\ files = << >>
  /\ current_index = -1
  /\ thread = 0
  /\ mode_toggle = FALSE
  /\ current = 0
  /\ duration = 0
  /\ progress_timer = "unset"
  /\ progress_value = 0
  /\ file_label = "No files loaded"
  /\ workers = << >>
  /\ sigq = << >>
  /\ ctl = [t \in Threads |-> "idle"]
  /\ ctl_audio = [t \in Threads |-> FALSE]
  /\ sf_ok = TRUE
  /\ live_ticks = 0
  /\ tempo_in \in TrackPairs
  /\ tempo_out = << >>
  /\ end_out = -1
  /\ dur_in = << >>
  /\ dur_out = -1
  /\ pitch_in = 0
  /\ pitch_out = << >>
  /\ chord_in = << >>
  /\ keys_out = << >>
  /\ slider = DEFAULT_VOLUME
  /\ delivered = [w |-> 0, v |-> DEFAULT_VOLUME]

\* __build_tempo_map applied to the decoded tracks
BuildTempoMap ==
  /\ tempo_out = << >>
  /\ tempo_out' = build_tempo_map(tempo_in)
  /\ UNCHANGED << playerVars, workers, sf_ok, tempo_in, durVars, pitchVars, macroVars, volumeVars >>

\* __find_max_end_tick applied to the decoded tracks
FindMaxEndTick ==
  /\ end_out = -1
  /\ end_out' = find_max_end_tick(tempo_in)
  /\ UNCHANGED << playerVars, workers, sf_ok, tempoVars, dur_in, dur_out, pitchVars, macroVars, volumeVars >>

\* the two helpers __calculate_duration calls on the decoded tracks
NextTempo ==
  \/ BuildTempoMap
  \/ FindMaxEndTick

SpecTempo == InitTempo /\ [][NextTempo]_vars

\* ------------------------------------------------ __ticks_to_seconds alone
\* the tempos of an enumerated map; each is a multiple of every TicksPerBeat
\* value, so a segment's length is a whole number of microseconds
SegTempos == {400000, 600000}
TicksPerBeat == {1, 2}

\* every strictly increasing tempo map starting at tick 0 with ticks up to MaxTick
TempoMaps ==
  UNION {{SortedItems(f, DOMAIN f) : f \in [S \cup {0} -> SegTempos]} :
           S \in SUBSET (1..MaxTick)}

InitDuration ==
  /\ files = << >>
  /\ current_index = -1
  /\ thread = 0
  /\ mode_toggle = FALSE
  /\ current = 0
  /\ duration = 0
  /\ progress_timer = "unset"
  /\ progress_value = 0
  /\ file_label = "No files loaded"
  /\ workers = << >>
  /\ sigq = << >>
  /\ ctl = [t \in Threads |-> "idle"]
  /\ ctl_audio = [t \in Threads |-> FALSE]
  /\ sf_ok = TRUE
  /\ live_ticks = 0
  /\ tempo_in = << >>
  /\ tempo_out = << >>
  /\ end_out = -1
  /\ dur_in \in [ticks_per_beat : TicksPerBeat, max_end_tick : 0..(MaxTick + 1),
                  tempo_map : TempoMaps]
  /\ dur_out = -1
  /\ pitch_in = 0
  /\ pitch_out = << >>
  /\ chord_in = << >>
  /\ keys_out = << >>
  /\ slider = DEFAULT_VOLUME
  /\ delivered = [w |-> 0, v |-> DEFAULT_VOLUME]

\* __ticks_to_seconds applied to the input; the result is in microseconds
TicksToSeconds ==
  /\ dur_out = -1
  /\ dur_out' = ticks_to_seconds(dur_in.ticks_per_beat, dur_in.max_end_tick, dur_in.tempo_map)
  /\ UNCHANGED << playerVars, workers, sf_ok, tempoVars, end_out, dur_in, pitchVars, macroVars, volumeVars >>

SpecDuration == InitDuration /\ [][TicksToSeconds]_vars

\* ------------------------------------------- __transpose_into_range alone
InitTranspose ==
  /\ files = << >>
  /\ current_index = -1
  /\ thread = 0
  /\ mode_toggle = FALSE
  /\ current = 0
  /\ duration = 0
  /\ progress_timer = "unset"
  /\ progress_value = 0
  /\ file_label = "No files loaded"
  /\ workers = << >>
  /\ sigq = << >>
  /\ ctl = [t \in Threads |-> "idle"]
  /\ ctl_audio = [t \in Threads |-> FALSE]
  /\ sf_ok = TRUE
  /\ live_ticks = 0
  /\ tempo_in = << >>
  /\ tempo_out = << >>
  /\ end_out = -1
  /\ dur_in = << >>
  /\ dur_out = -1
  /\ pitch_in \in (0 - MaxPitch)..MaxPitch
  /\ pitch_out = << >>
  /\ chord_in = << >>
  /\ keys_out = << >>
  /\ slider = DEFAULT_VOLUME
  /\ delivered = [w |-> 0, v |-> DEFAULT_VOLUME]

\* __transpose_into_range applied to the pitch
Transpose ==
  /\ pitch_out = << >>
  /\ pitch_out' = << transpose_into_range(pitch_in) >>
  /\ UNCHANGED << playerVars, workers, sf_ok, tempoVars, durVars, pitch_in, macroVars, volumeVars >>

SpecTranspose == InitTranspose /\ [][Transpose]_vars

\* ------------------------------------------------------- play_note alone
\* play_note applied to the pitch
PlayNote ==
  /\ keys_out = << >>
  /\ keys_out' = << play_note(pitch_in, 0, 0) >>
  /\ UNCHANGED << playerVars, workers, sf_ok, tempoVars, durVars, pitchVars, chord_in,
                  volumeVars >>

SpecKeys == InitTranspose /\ [][PlayNote]_vars

\* ------------------------------------------------------ play_chord alone
\* the pitches and the velocities of an enumerated chord
ChordPitches == {47, 60, 61, 90}
ChordVelocities == {1, 64, 127}

\* the roll delay of the earlier play_chord (src/wwm_macro.py):
\* max(0.01, 0.1 - (velocity / 127.0) * 0.08), in units of 1/12700 second
roll_delay(velocity) == Max(127, 1270 - 8 * velocity)

InitChord ==
  /\ files = << >>
  /\ current_index = -1
  /\ thread = 0
  /\ mode_toggle = FALSE
  /\ current = 0
  /\ duration = 0
  /\ progress_timer = "unset"
  /\ progress_value = 0
  /\ file_label = "No files loaded"
  /\ workers = << >>
  /\ sigq = << >>
  /\ ctl = [t \in Threads |-> "idle"]
  /\ ctl_audio = [t \in Threads |-> FALSE]
  /\ sf_ok = TRUE
  /\ live_ticks = 0
  /\ tempo_in = << >>
  /\ tempo_out = << >>
  /\ end_out = -1
  /\ dur_in = << >>
  /\ dur_out = -1
  /\ pitch_in = 0
  /\ pitch_out = << >>
  /\ chord_in \in [notes : UNION {[1..n -> ChordPitches] : n \in 1..MaxChord},
                    velocity : ChordVelocities]
  /\ keys_out = << >>
  /\ slider = DEFAULT_VOLUME
  /\ delivered = [w |-> 0, v |-> DEFAULT_VOLUME]

\* play_chord applied to the notes of the chord, as __flush_tick_events calls
\* it (line 148): the velocity is not passed
PlayChord ==
  /\ keys_out = << >>
  /\ keys_out' = << play_chord(chord_in.notes, 0, 0) >>
  /\ UNCHANGED << playerVars, workers, sf_ok, tempoVars, durVars, pitchVars, chord_in,
                  volumeVars >>

SpecChord == InitChord /\ [][PlayChord]_vars

\* --------------------------------------------------------------- properties
Workers == 1..Len(workers)

\* the Worker holds a synth it created and has not deleted
HoldsSink(w) == workers[w].acquired > workers[w].released

\* stop() has been called on the Worker
StopRequested(w) == ~workers[w].running

\* C1: at most one running Worker session holds an output sink at any time,
\* whichever thread (UI or hotkey) delivers the commands.
C1_OneSinkAtATime ==
  Cardinality({w \in Workers : IsRunning(w) /\ HoldsSink(w)}) <= 1

\* C2: after stop() is called on a running Worker, run() ends within a bounded
\* number of its steps and the synth the session created is deleted exactly once.
C2_StopEndsAndReleasesOnce ==
  \A w \in Workers :
    StopRequested(w) =>
      /\ workers[w].since_stop <= Len(Stream(workers[w].file)) + 5
      /\ (Terminated(w) /\ workers[w].acquired > 0) => workers[w].released = workers[w].acquired

C4_SinkReleasedOnEveryExit ==
  \A w \in Workers :
    Terminated(w) =>
      /\ ~HoldsSink(w)
      /\ (workers[w].pc = "crashed" => workers[w].error)

\* C5: when __start_playback has started a Worker whose file fails to decode,
\* the label it sets is the invalid-file message.
C5_DecodeErrorShown ==
  [][\A t \in Threads :
       (ctl[t] = "sp_show" /\ ctl'[t] = "idle" /\ Catalog[workers[thread].file].keyerr)
         => file_label' = "Invalid file"]_vars

\* C6: an audio session whose soundfont failed to load sends no note-on.
C6_NoNoteAfterLoadFailure ==
  \A w \in Workers :
    (workers[w].is_audio /\ workers[w].acquired > 0 /\ ~workers[w].sf_loaded) =>
      \A k \in DOMAIN workers[w].log : workers[w].log[k].op # "noteon"

\* the sounding note-ons of file f scheduled at the same instant as message i
Instant(f, i) ==
  {j \in 1..Len(Stream(f)) : IsSounding(Stream(f)[j]) /\ CumSec(f, j) = CumSec(f, i)}

SetMax(S) == CHOOSE x \in S : \A y \in S : y <= x

\* C7: the sounding note-ons of one scheduling instant reach the synth as one
\* chord: their note-on calls are consecutive and carry the maximum velocity.
C7_ChordPerInstant ==
  \A w \in Workers :
    LET log == workers[w].log
        f == workers[w].file
    IN \A k \in DOMAIN log :
         log[k].op = "noteon" =>
           /\ log[k].val = SetMax({Stream(f)[j].velocity : j \in Instant(f, log[k].ev)})
           /\ \A m \in DOMAIN log :
                (m > k /\ log[m].op = "noteon" /\ log[m].ev \in Instant(f, log[k].ev))
                  => \A x \in k..m : log[x].op = "noteon"

\* C8: every sink call is made no earlier than its message's scheduled offset
\* measured in un-paused playback time.
C8_PauseExcludedFromTiming ==
  \A w \in Workers :
    \A k \in DOMAIN workers[w].log :
      workers[w].log[k].up >= CumSec(workers[w].file, workers[w].log[k].ev)

\* C9: the elapsed-seconds counter never exceeds the timer ticks seen while the
\* current Worker was not paused, and while the current Worker is paused neither
\* the counter nor the progress bar value advances.
C9_ProgressExcludesPause ==
  /\ [](current <= live_ticks)
  /\ [][(thread # 0 /\ workers[thread].paused)
          => (current' <= current /\ progress_value' <= progress_value)]_vars

C9_Witness ==
  /\ thread # 0 /\ workers[thread].paused /\ IsRunning(thread)
  /\ progress_timer = "active"
  /\ current > 0


\* C10: the tempo map is strictly increasing in tick and starts at tick 0.
C10_TempoMapStrictlyIncreasing ==
  tempo_out # << >> =>
    /\ tempo_out[1][1] = 0
    /\ \A i \in 1..(Len(tempo_out) - 1) : tempo_out[i][1] < tempo_out[i + 1][1]

\* a map of several segments built from tracks that write one tick twice
C10_Witness ==
  /\ Len(tempo_out) >= 2
  /\ Len(AllTempos(tempo_in, Len(tempo_in))) > Len(tempo_out) + 1

\* the positions << track, index >> of the Tempo events at absolute tick t
TempoEventsAt(tracks, t) ==
  {p \in UNION {{<< k, i >> : i \in 1..Len(tracks[k])} : k \in 1..Len(tracks)} :
     /\ tracks[p[1]][p[2]].type = "set_tempo"
     /\ AbsTicks(tracks[p[1]], p[2]) = t}

\* the tempo of the last Tempo event at tick t in iteration order (tracks in
\* order, events in order within a track); the default when there is none
LastTempoAt(tracks, t) ==
  LET at == TempoEventsAt(tracks, t)
      last == CHOOSE p \in at :
                \A q \in at : q[1] < p[1] \/ (q[1] = p[1] /\ q[2] <= p[2])
  IN IF at = {} THEN DEFAULT_TEMPO ELSE tracks[last[1]][last[2]].tempo

\* C11 (as amended): every entry of the tempo map holds the tempo of the last
\* Tempo event at its tick in iteration order; an entry without a Tempo event
\* is the default entry, tick 0 with tempo 500000.  Tick 0 maps to 500000 when
\* no Tempo event occurs at tick 0 (and also when the last one there is 500000).
C11_LastWriteWins ==
  tempo_out # << >> =>
    \A j \in DOMAIN tempo_out :
      /\ tempo_out[j][2] = LastTempoAt(tempo_in, tempo_out[j][1])
      /\ TempoEventsAt(tempo_in, tempo_out[j][1]) = {} => tempo_out[j][1] = 0

\* a tick written twice, by Tempo events of different tempo
C11_Witness ==
  /\ tempo_out # << >>
  /\ \E j \in DOMAIN tempo_out :
       \E p, q \in TempoEventsAt(tempo_in, tempo_out[j][1]) :
         tempo_in[p[1]][p[2]].tempo # tempo_in[q[1]][q[2]].tempo

\* C11 as stated: last write wins, and tick 0 maps to 500000 exactly when no
\* Tempo event occurs at absolute tick 0 in any track.
C11_AsStated ==
  tempo_out # << >> =>
    /\ \A j \in DOMAIN tempo_out :
         tempo_out[j][2] = LastTempoAt(tempo_in, tempo_out[j][1])
    /\ (tempo_out[1][2] = DEFAULT_TEMPO) <=> (TempoEventsAt(tempo_in, 0) = {})

\* the tick-to-time integral up to tick n over the first i segments of a map,
\* in microseconds times ticks per beat: a segment runs to the next entry's
\* tick, the last one to n
RECURSIVE SegmentSum(_, _, _)
SegmentSum(map, n, i) ==
  IF i = 0 THEN 0
  ELSE LET seg_start == map[i][1]
           seg_end == IF i < Len(map) THEN Min(map[i + 1][1], n) ELSE n
       IN SegmentSum(map, n, i - 1)
            + (IF seg_start < n THEN (seg_end - seg_start) * map[i][2] ELSE 0)

\* C12: for a strictly increasing tempo map starting at tick 0 and an end tick
\* N >= 0, __ticks_to_seconds returns the tick-to-time integral (the sum over
\* the segments that start before N of their length up to N times their tempo,
\* over ticks per beat); with one segment of tempo T this is N * T / P.
C12_TickToTimeIntegral ==
  dur_out # -1 =>
    /\ dur_out * dur_in.ticks_per_beat
         = SegmentSum(dur_in.tempo_map, dur_in.max_end_tick, Len(dur_in.tempo_map))
    /\ Len(dur_in.tempo_map) = 1 =>
         dur_out * dur_in.ticks_per_beat = dur_in.max_end_tick * dur_in.tempo_map[1][2]

\* an end tick strictly inside the second of three segments of different tempo
C12_Witness ==
  /\ dur_out > 0
  /\ Len(dur_in.tempo_map) >= 3
  /\ dur_in.tempo_map[2][1] < dur_in.max_end_tick
  /\ dur_in.max_end_tick < dur_in.tempo_map[3][1]
  /\ dur_in.tempo_map[1][2] # dur_in.tempo_map[2][2]

\* the absolute ticks of the note-on and note-off events of all tracks
NoteTicks(tracks) ==
  {AbsTicks(tracks[p[1]], p[2]) :
     p \in {q \in UNION {{<< k, i >> : i \in 1..Len(tracks[k])} : k \in 1..Len(tracks)} :
              tracks[q[1]][q[2]].type \in {"note_on", "note_off"}}}

\* C13: the end tick used for the duration is the highest absolute tick of a
\* note-on or note-off event over all tracks (0 when no track has notes);
\* events after a track's last note event do not raise it.
C13_EndTickIsLastNoteTick ==
  end_out # -1 => end_out = SetMax(NoteTicks(tempo_in) \cup {0})

\* C14: transpose_into_range returns a pitch in [48, 83] for every integer
\* pitch, returns a pitch already in [48, 83] unchanged, and applied to its own
\* result gives that result again.
C14_TransposeIntoRange ==
  pitch_out # << >> =>
    /\ MIN_NOTE <= pitch_out[1] /\ pitch_out[1] <= MAX_NOTE
    /\ (MIN_NOTE <= pitch_in /\ pitch_in <= MAX_NOTE) => pitch_out[1] = pitch_in
    /\ transpose_into_range(pitch_out[1]) = pitch_out[1]

\* a pitch more than an octave above the range has been folded
C14_Witness ==
  /\ pitch_out # << >>
  /\ pitch_in > MAX_NOTE + OCTAVE

\* a step of the controlling side: a handler or a step of __start_playback
ControllerStep == ControlStep("ui") \/ ControlStep("hk") \/ SetVolume

\* field fld of Worker w is written to a new value by the step
Written(w, fld) == workers'[w][fld] # workers[w][fld]

\* C15 (as amended): after construction, running, paused and volume of a Worker
\* are written only by the controlling side (stop, toggle_pause, set_volume) and
\* error only by the Worker's own thread; no field is written by both sides.
C15_SingleWriterPerField ==
  [][\A w \in Workers :
       ~Terminated(w) =>
         /\ (Written(w, "running") \/ Written(w, "paused") \/ Written(w, "volume"))
              => (ControllerStep /\ ~WorkerStep)
         /\ Written(w, "error") => (WorkerStep /\ ~ControllerStep)]_vars

\* a Worker inside run() (which has written error) whose other three fields
\* have been written by stop, toggle_pause and set_volume
C15_Witness ==
  \E w \in Workers :
    /\ workers[w].pc \in {"next", "pause", "render", "final"}
    /\ ~workers[w].running
    /\ workers[w].paused
    /\ workers[w].volume # DEFAULT_VOLUME

\* C15 as stated: running and error are written only by the Worker's own
\* thread, paused and volume only by the controlling side.
C15_AsStated ==
  [][\A w \in Workers :
       ~Terminated(w) =>
         /\ (Written(w, "running") \/ Written(w, "error"))
              => (WorkerStep /\ ~ControllerStep)
         /\ (Written(w, "paused") \/ Written(w, "volume"))
              => (ControllerStep /\ ~WorkerStep)]_vars

\* the thread is blocked or asleep inside a handler
Blocked(t) == ctl[t] \in {"sp_wait", "sp_sleep"}

\* C16: the UI thread never blocks or sleeps in a command handler, in either
\* mode, except while it waits for the previous Worker to terminate.
C16_ControllerNeverSleeps == Blocked("ui") => ctl["ui"] = "sp_wait"

\* the calls Worker w has logged for message i of its stream
CallsFor(w, i) == {k \in DOMAIN workers[w].log : workers[w].log[k].ev = i}

\* C17: a NoteOff event is never added to a chord; in Synth mode it is sent to
\* the synth as a note-off for its pitch when it is processed, and in Macro mode
\* it produces no output at all.
C17_NoteOffForwardedNotChorded ==
  \A w \in Workers :
    LET wr == workers[w]
        stream == Stream(wr.file)
    IN \A i \in 1..Len(stream) :
         stream[i].type = "note_off" =>
           /\ \A k \in CallsFor(w, i) : wr.log[k].op \notin {"noteon", "send"}
           /\ (wr.is_audio /\ wr.idx > i) =>
                \E k \in CallsFor(w, i) :
                  wr.log[k].op = "noteoff" /\ wr.log[k].note = stream[i].note
           /\ ~wr.is_audio => CallsFor(w, i) = {}

\* both modes have processed a NoteOff: an audio Worker has sent a note-off
\* to its synth
C17_Witness ==
  \E w \in Workers :
    /\ workers[w].is_audio
    /\ \E k \in DOMAIN workers[w].log : workers[w].log[k].op = "noteoff"

\* the program of the last ProgramChange among the first n messages of a
\* stream, -1 if there is none
RECURSIVE ProgramAfter(_, _)
ProgramAfter(stream, n) ==
  IF n = 0 THEN -1
  ELSE IF stream[n].type = "program_change" THEN stream[n].program
  ELSE ProgramAfter(stream, n - 1)

\* C18: in Synth mode, once a ProgramChange of the stream has been processed
\* the synth's program is the one it names, so the notes rendered after it use it.
C18_ProgramChangeApplied ==
  \A w \in Workers :
    LET wr == workers[w]
    IN (wr.is_audio /\ wr.sf_loaded /\ InLoop(w) /\ ProgramAfter(Stream(wr.file), wr.idx - 1) # -1)
         => wr.program = ProgramAfter(Stream(wr.file), wr.idx - 1)

\* the value the latest set_volume call handed to Worker w, 100 if none did
VolumeDelivered(w) == IF delivered.w = w THEN delivered.v ELSE DEFAULT_VOLUME

\* C19: in Synth mode, the gain controller sent after each processed event
\* carries the value of the latest set_volume delivered to that Worker, or 100
\* if none was delivered in this session; a slider change made while no
\* session runs is not carried into the next session.
C19_GainFollowsVolume ==
  [][\A w \in Workers :
       (workers[w].is_audio /\ workers[w].pc = "render" /\ workers'[w].pc = "next")
         => LET log == workers'[w].log
            IN /\ Len(log) > Len(workers[w].log)
               /\ log[Len(log)].op = "cc"
               /\ log[Len(log)].note = 7
               /\ log[Len(log)].val = VolumeDelivered(w)]_vars

\* a session that sent gain 100 and, after a slider move, another value
C19_Witness ==
  \E w \in Workers :
    LET log == workers[w].log
    IN /\ workers[w].is_audio
       /\ log # << >>
       /\ log[Len(log)].op = "cc"
       /\ log[Len(log)].val # DEFAULT_VOLUME
       /\ \E k \in DOMAIN log : log[k].op = "cc" /\ log[k].val = DEFAULT_VOLUME

\* run() of the Worker has passed line 166
PastDuration(w) ==
  \/ workers[w].pc \in {"next", "pause", "render", "final", "crashed"}
  \/ workers[w].pc = "done" /\ ~Catalog[workers[w].file].keyerr

\* C20: every session whose file decodes emits duration_ready exactly once,
\* before any event of the stream reaches the sink; a session whose decode
\* fails never emits it.
C20_DurationReadyOnce ==
  /\ Len(sigq) = Cardinality({w \in Workers : PastDuration(w)})
  /\ \A w \in Workers :
       /\ workers[w].log # << >> => PastDuration(w)
       /\ Catalog[workers[w].file].keyerr => ~PastDuration(w)
       /\ (workers[w].pc = "done" /\ ~Catalog[workers[w].file].keyerr) => PastDuration(w)

\* one session has ended after decoding and rendering, another after a
\* decode error
C20_Witness ==
  /\ Len(sigq) = 1
  /\ \E w \in Workers : workers[w].pc = "done" /\ Catalog[workers[w].file].keyerr
  /\ \E x \in Workers : workers[x].log # << >>

\* C21: play_note(p) looks the key up after folding p into [48, 83]: it sends
\* exactly the key combination mapped to transpose_into_range(p) when the table
\* has an entry for it, and sends nothing when it has none.
C21_LookupAfterFolding ==
  keys_out # << >> =>
    LET t == transpose_into_range(pitch_in)
    IN IF t \in DOMAIN NOTE_TO_WWM_KEY
       THEN /\ Len(keys_out[1]) = 1
            /\ keys_out[1][1].op = "send"
            /\ keys_out[1][1].note = t
            /\ keys_out[1][1].key = Lower(NOTE_TO_WWM_KEY[t])
       ELSE keys_out[1] = << >>

\* a pitch below the range has been folded up and its key sent
C21_Witness ==
  /\ keys_out # << >>
  /\ pitch_in < MIN_NOTE
  /\ keys_out[1] # << >>

\* C29: the note-to-key table has an entry for every pitch in [48, 83] (36
\* entries, no gaps) and maps distinct pitches to distinct key combinations, so
\* play_note sends exactly one keystroke for every MIDI pitch 0..127.
C29_TableCompleteAndInjective ==
  /\ DOMAIN NOTE_TO_WWM_KEY = MIN_NOTE..MAX_NOTE
  /\ Cardinality(DOMAIN NOTE_TO_WWM_KEY) = 36
  /\ \A a, b \in DOMAIN NOTE_TO_WWM_KEY :
       a # b => /\ NOTE_TO_WWM_KEY[a] # NOTE_TO_WWM_KEY[b]
                /\ Lower(NOTE_TO_WWM_KEY[a]) # Lower(NOTE_TO_WWM_KEY[b])
  /\ (keys_out # << >> /\ pitch_in \in 0..127) =>
       /\ Len(keys_out[1]) = 1
       /\ keys_out[1][1].op = "send"

\* the highest MIDI pitch has been played: folded down and sent as one key
C29_Witness ==
  /\ pitch_in = 127
  /\ keys_out # << >>
  /\ Len(keys_out[1]) = 1
  /\ keys_out[1][1].note \in MIN_NOTE..MAX_NOTE

\* C22: the keystrokes of one chord are sent one after the other with a roll
\* delay between them, max(min_delay, max_delay - velocity / 127 * spread) of
\* the chord's velocity; the delay is never below min_delay, never above
\* max_delay, and does not increase with the velocity over 0..127.
C22_RollDelayBetweenKeystrokes ==
  /\ \A v \in 0..127 :
       /\ 127 <= roll_delay(v) /\ roll_delay(v) <= 1270
       /\ v < 127 => roll_delay(v + 1) <= roll_delay(v)
  /\ keys_out # << >> =>
       LET calls == keys_out[1]
       IN \A i, j \in DOMAIN calls :
            (i < j /\ calls[i].op = "send" /\ calls[j].op = "send") =>
              \E k \in i..j :
                calls[k].op = "sleep" /\ calls[k].val = roll_delay(chord_in.velocity)

\* C23: the sink variant of a session is the mode toggle's value when the
\* session is created and does not change while it runs, whatever the toggle
\* does; a Macro session makes no synth note-on, note-off or controller call
\* and a Synth session sends no keystroke.
C23_SinkVariantFixedAtStart ==
  /\ [](\A w \in Workers :
          \A k \in DOMAIN workers[w].log :
            IF workers[w].is_audio
            THEN workers[w].log[k].op \in {"noteon", "noteoff", "cc"}
            ELSE workers[w].log[k].op = "send")
  /\ [][\A w \in Workers :
          ~Terminated(w) => workers'[w].is_audio = workers[w].is_audio]_vars
  /\ [][Len(workers') > Len(workers)
          => workers'[Len(workers')].is_audio = mode_toggle]_vars

\* a Macro session that has sent keystrokes and is still in its loop after the
\* toggle was switched to Audio
C23_Witness ==
  \E w \in Workers :
    /\ ~workers[w].is_audio
    /\ InLoop(w)
    /\ workers[w].log # << >>
    /\ mode_toggle

\* C24 (as amended): after stop() is called at most one further event of the
\* stream is rendered, and only if run() had already passed the running check
\* of line 170 for that event when stop() was called, paused or not; a Worker
\* stopped anywhere else, its pause loop included, renders no further event;
\* the final flush renders nothing.
C24_AtMostOneEventAfterStop ==
  /\ [](\A w \in Workers :
          /\ workers[w].after_stop <= 1
          /\ workers[w].after_stop = 1 => workers[w].stop_late)
  /\ [][\A w \in Workers :
          (workers[w].pc = "final" /\ workers'[w].pc = "done")
            => workers'[w].log = workers[w].log]_vars

\* a Worker stopped between the check of line 170 and the rendering of its
\* message has rendered that message
C24_Witness ==
  \E w \in Workers :
    /\ ~workers[w].running
    /\ workers[w].after_stop = 1
    /\ workers[w].log # << >>

\* C24 as stated: after stop() at most one further event is rendered, none if
\* the Worker was paused when stop() was called, and the final flush renders
\* nothing.
C24_AsStated ==
  /\ [](\A w \in Workers :
          /\ workers[w].after_stop <= 1
          /\ workers[w].stop_paused => workers[w].after_stop = 0)
  /\ [][\A w \in Workers :
          (workers[w].pc = "final" /\ workers'[w].pc = "done")
            => workers'[w].log = workers[w].log]_vars

\* the calls of worker w's log made while message i of its stream was processed
CallsAt(w, i) == {k \in DOMAIN workers[w].log : workers[w].log[k].ev = i}

\* message i of worker w's stream is a note-on with velocity 0
ZeroNoteOn(w, i) ==
  LET msg == Stream(workers[w].file)[i]
  IN msg.type = "note_on" /\ msg.velocity = 0

\* C25 (as amended): a note-on with velocity 0 causes no note-on, no note-off
\* and no keystroke: in Macro mode no sink call is made while it is processed,
\* in Synth mode the only one is the gain controller sent after every message;
\* a note ended only by a velocity-0 note-on is never turned off.
C25_ZeroVelocityNoteOnIgnored ==
  \A w \in Workers : \A k \in DOMAIN workers[w].log :
    LET call == workers[w].log[k]
        stream == Stream(workers[w].file)
    IN /\ ZeroNoteOn(w, call.ev) => (workers[w].is_audio /\ call.op = "cc" /\ call.note = 7)
       /\ call.op = "noteoff"
            => \E i \in DOMAIN stream : stream[i].type = "note_off" /\ stream[i].note = call.note

\* a Synth session has gone past the velocity-0 note-on of its stream after
\* turning the same pitch on
C25_Witness ==
  \E w \in Workers : \E i \in 1..(workers[w].idx - 1) :
    /\ workers[w].is_audio
    /\ ZeroNoteOn(w, i)
    /\ CallsAt(w, i) # {}
    /\ \E k \in DOMAIN workers[w].log :
         workers[w].log[k].op = "noteon"
           /\ workers[w].log[k].note = Stream(workers[w].file)[i].note

\* C25 as stated: no sink call at all is made for a note-on with velocity 0
C25_AsStated ==
  \A w \in Workers : \A k \in DOMAIN workers[w].log : ~ZeroNoteOn(w, workers[w].log[k].ev)

\* the UI thread is inside __start_playback
InStartPlayback ==
  ctl["ui"] \in {"sp_check", "sp_wait", "sp_create", "sp_sleep", "sp_start", "sp_show"}

\* C26: whenever __start_playback runs, 0 <= current_index < number of files,
\* after any sequence of browse, load-playlist (an empty playlist included),
\* play, next, previous and double-click commands; next at the last index and
\* previous at the first change nothing and start no session.
C26_IndexInRangeAtStart ==
  /\ [](InStartPlayback => (0 <= current_index /\ current_index < Len(files)))
  /\ [][NextOnClick("ui") => current_index < Len(files) - 1]_vars
  /\ [][PreviousOnClick("ui") => current_index > 0]_vars

\* __start_playback is about to index the last file of a list of several
C26_Witness ==
  /\ ctl["ui"] = "sp_create"
  /\ Len(files) >= 2
  /\ current_index = Len(files) - 1

\* C27: 0 <= current <= duration in every reachable state of the Controller;
\* current is reset to 0 by each duration-ready signal, grows by at most 1 per
\* timer tick and by nothing else, and the tick that finds current at the
\* duration stops the timer, after which the counter does not grow.
C27_ProgressWithinDuration ==
  /\ [](0 <= current /\ current <= duration)
  /\ [][DurationReady => current' = 0]_vars
  /\ [][current' > current => (UpdateProgress /\ current' = current + 1)]_vars
  /\ [][(UpdateProgress /\ ~ProgressFrozen /\ current = duration)
          => (progress_timer' = "stopped" /\ current' = current)]_vars
  /\ [][progress_timer = "stopped" => current' <= current]_vars

\* the counter has been counted up to a positive duration and the timer stopped
C27_Witness ==
  /\ duration > 0
  /\ current = duration
  /\ progress_timer = "stopped"

\* C28: the progress counter advances only while a Worker session is running
\* and not paused: once the current Worker has finished, been cancelled or
\* failed to decode, a timer tick increases neither the counter nor the
\* progress shown.
C28_ProgressOnlyWhileRunning ==
  [][(thread # 0 /\ Terminated(thread))
       => (current' <= current /\ progress_value' <= progress_value)]_vars

====
